---------------------------- MODULE Spec2Model ----------------------------
(***************************************************************************)
(* A model of the stream-timestamp-analyzer metadata extraction code:      *)
(*   - the NAL unit scanner   (src/src/stream_analyzer.py)                 *)
(*   - the SEI payload parser (src/src/nal_unit.py, and the simpler one    *)
(*                             in src/src/stream_analyzer.py)              *)
(*   - the AMF0 decoder       (src/src/utils/amf_analyzer.py)              *)
(*   - the per-packet record emission of the analyzers                     *)
(*                            (src/src/stream_analyzer.py,                 *)
(*                             src/src/analyzers/rtmp.py, flv.py)          *)
(*                                                                         *)
(* Byte buffers are sequences of integers 0..255.  Python offsets are      *)
(* 0-based; the byte at Python offset k of buffer d is d[k + 1].           *)
(* A Python Optional is a sequence of length 0 (None) or 1 (the value).    *)
(* A raised Python exception is a result record with ok = FALSE.           *)
(***************************************************************************)
EXTENDS Integers, Sequences, FiniteSets, TLC

VARIABLES
    \* ---- NAL unit scanner (extract_nals_from_packet)
    framing,        \* how the packet's buffer was framed: "avcc", "sc3", "sc4"
    units,          \* the NAL unit payloads the buffer was built from
    data,           \* packet.to_bytes()
    i,              \* the scan cursor of the while loop
    nals,           \* the NAL units yielded so far (their .data)
    scan_pc,        \* "idle", "scan", "done"
    \* ---- SEI parser (NALUnit.parse_sei of nal_unit.py)
    sei_data,       \* self.data of the NAL unit
    sei_in,         \* the fields a synthetic picture-timing NAL was built from
    pos,            \* the read cursor of parse_sei
    payloads,       \* result['payloads']
    env,            \* the envelopes read so far, one record per _read_sei_payload
    sei_pc,         \* "idle", "start", "loop", "done", "rejected"
    \* ---- NALUnit._parse_clock_timestamp called on its own
    clk_data,       \* the bytes behind the bit reader
    clk_in,         \* the flags and fields the bytes were written from
    clk_out,        \* what the call returned and where it left the reader
    clk_pc,         \* "idle", "call", "done"
    \* ---- AMF0 decoder (AMFAnalyzer.extract_onfi_data)
    amf_data,       \* the data-track bytes
    amf_in,         \* the mapping an encoded buffer was built from (Optional)
    offset,         \* the top-level scan cursor
    onfi,           \* the returned value (Optional)
    amf_pc,         \* "idle", "loop", "done"; "raised" had an exception left it
    visited,        \* the offsets the loop iterations were entered with
    \* ---- AMF0 value decoder (AMFAnalyzer.parse_amf0_value) called on its own
    val_data,       \* the buffer
    val_in,         \* the count and body an EcmaArray buffer was built from
    val_at,         \* the offset the decoder is called at
    val_out,        \* what the call returned, or that it raised
    val_pc,         \* "idle", "call", "done"
    \* ---- analyzers: per-packet record emission
    analyzer,       \* "rtmp", "flv", "hls", or "none"
    video_time_base,\* float(video_stream.time_base), in clock quanta per tick
    queue,          \* the multiprocessing queue's contents
    pkt,            \* the packet the last handler consumed (Optional)
    emitted,        \* the records the last handler put on the queue
    npackets        \* packets consumed so far

vars == <<framing, units, data, i, nals, scan_pc,
          sei_data, sei_in, pos, payloads, env, sei_pc,
          clk_data, clk_in, clk_out, clk_pc,
          amf_data, amf_in, offset, onfi, amf_pc, visited,
          val_data, val_in, val_at, val_out, val_pc,
          analyzer, video_time_base, queue, pkt, emitted, npackets>>

scan_vars == <<framing, units, data, i, nals, scan_pc>>
clk_vars  == <<clk_data, clk_in, clk_out, clk_pc>>
sei_vars  == <<sei_data, sei_in, pos, payloads, env, sei_pc, clk_vars>>
val_vars  == <<val_data, val_in, val_at, val_out, val_pc>>
amf_vars  == <<amf_data, amf_in, offset, onfi, amf_pc, visited, val_vars>>
pipe_vars == <<analyzer, video_time_base, queue, pkt, emitted, npackets>>

(***************************************************************************)
(* Bounds of the model.                                                    *)
(***************************************************************************)
MaxUnits == 2
MaxPayloadLen == 3
MaxSeiChunks == 3
MaxProps == 2
MaxAmfChunks == 3
MaxValChunks == 2
MaxLiveChunks == 2
MaxPackets == 2

(***************************************************************************)
(* Python values and byte-string primitives.                               *)
(***************************************************************************)
None == << >>
Some(v) == << v >>
IsSome(o) == Len(o) = 1
Get(o) == o[1]

Min(a, b) == IF a <= b THEN a ELSE b
Max(a, b) == IF a >= b THEN a ELSE b

\* data[a:b] for 0 <= a, 0 <= b: clipped to the buffer, empty when a >= b.
Slice(d, a, b) == SubSeq(d, a + 1, Min(b, Len(d)))

\* data[a:]
SliceFrom(d, a) == SubSeq(d, a + 1, Len(d))

RECURSIVE Concat(_)
Concat(ss) == IF ss = << >> THEN << >> ELSE Head(ss) \o Concat(Tail(ss))

\* struct.pack('>I', n) for n < 2^32
U32BE(n) == << (n \div 16777216) % 256, (n \div 65536) % 256,
               (n \div 256) % 256, n % 256 >>

\* struct.pack('>H', n) for n < 2^16
U16BE(n) == << (n \div 256) % 256, n % 256 >>

(***************************************************************************)
(* NAL unit scanner.                                                       *)
(***************************************************************************)
StartCode3 == << 0, 0, 1 >>
StartCode4 == << 0, 0, 0, 1 >>

\* Is pat at Python offset j of d?
MatchAt(d, pat, j) ==
    /\ j + Len(pat) <= Len(d)
    /\ \A k \in 1..Len(pat) : d[j + k] = pat[k]

\* bytes.find(pat, from): the lowest offset >= from where pat occurs, or -1.
Find(d, pat, from) ==
    LET hits == { j \in from..(Len(d) - Len(pat)) : MatchAt(d, pat, j) }
    IN  IF hits = {} THEN -1
        ELSE CHOOSE j \in hits : \A h \in hits : j <= h

\* A mutant of ScanIteration: the start code is skipped by 2 bytes, not 3.
ScanIteration_Skip2(d, from) ==
    LET found == Find(d, StartCode3, from) IN
    IF found = -1
    THEN [ yield |-> None, next_i |-> from, stop |-> TRUE ]
    ELSE LET start == found + 2
             next_start == Find(d, StartCode3, start)
         IN  IF next_start = -1
             THEN [ yield |-> IF SliceFrom(d, start) # << >>
                              THEN Some(SliceFrom(d, start)) ELSE None,
                    next_i |-> from, stop |-> TRUE ]
             ELSE [ yield |-> IF Slice(d, start, next_start) # << >>
                              THEN Some(Slice(d, start, next_start)) ELSE None,
                    next_i |-> next_start, stop |-> FALSE ]

\* One iteration of the while loop of extract_nals_from_packet, entered with
\* i = from < len(data): what it yields (Optional), the next i, and whether
\* the loop is left by break.
ScanIteration(d, from) ==
    LET found == Find(d, StartCode3, from) IN
    IF found = -1
    THEN [ yield |-> None, next_i |-> from, stop |-> TRUE ]
    ELSE LET start == found + 3
             next_start == Find(d, StartCode3, start)
         IN  IF next_start = -1
             THEN [ yield |-> IF SliceFrom(d, start) # << >>
                              THEN Some(SliceFrom(d, start)) ELSE None,
                    next_i |-> from, stop |-> TRUE ]
             ELSE [ yield |-> IF Slice(d, start, next_start) # << >>
                              THEN Some(Slice(d, start, next_start)) ELSE None,
                    next_i |-> next_start, stop |-> FALSE ]

\* The whole generator, as the list of NAL units it yields from offset from.
RECURSIVE ExtractNals(_, _)
ExtractNals(d, from) ==
    IF from >= Len(d) THEN << >>
    ELSE LET it == ScanIteration(d, from) IN
         it.yield \o (IF it.stop THEN << >> ELSE ExtractNals(d, it.next_i))

\* The buffers the scanner is fed: a sequence of NAL unit payloads written
\* length-prefixed (AVCC) or after 3- or 4-byte start codes (Annex B).
EncodeAvcc(us) == Concat([ k \in 1..Len(us) |-> U32BE(Len(us[k])) \o us[k] ])
EncodeStartCode(us, sc) == Concat([ k \in 1..Len(us) |-> sc \o us[k] ])

Encode(f, us) ==
    CASE f = "avcc" -> EncodeAvcc(us)
      [] f = "sc3"  -> EncodeStartCode(us, StartCode3)
      [] f = "sc4"  -> EncodeStartCode(us, StartCode4)

ScanBytes == { 0, 1 }
Framings == { "avcc", "sc3", "sc4" }

SeqsUpTo(S, lo, hi) == UNION { [ 1..n -> S ] : n \in lo..hi }

ScanPayloads == SeqsUpTo(ScanBytes, 1, MaxPayloadLen)
ScanUnitSeqs == SeqsUpTo(ScanPayloads, 0, MaxUnits)

ScanIdle ==
    /\ framing = "none" /\ units = << >> /\ data = << >>
    /\ i = 0 /\ nals = << >> /\ scan_pc = "idle"

ScanInit ==
    /\ framing \in Framings
    /\ units \in ScanUnitSeqs
    /\ data = Encode(framing, units)
    /\ i = 0
    /\ nals = << >>
    /\ scan_pc = "scan"

\* while i < len(data): one iteration
ScanStep ==
    /\ scan_pc = "scan"
    /\ i < Len(data)
    /\ LET it == ScanIteration(data, i) IN
        /\ nals' = nals \o it.yield
        /\ i' = it.next_i
        /\ scan_pc' = IF it.stop THEN "done" ELSE "scan"
    /\ UNCHANGED <<framing, units, data>>
    /\ UNCHANGED <<sei_vars, amf_vars, pipe_vars>>

\* the while condition fails: the generator is exhausted
ScanExit ==
    /\ scan_pc = "scan"
    /\ i >= Len(data)
    /\ scan_pc' = "done"
    /\ UNCHANGED <<framing, units, data, i, nals>>
    /\ UNCHANGED <<sei_vars, amf_vars, pipe_vars>>

ScanNext == ScanStep \/ ScanExit

(***************************************************************************)
(* Claims about the NAL unit scanner, under ScanSpec.                      *)
(***************************************************************************)

\* C1: a buffer of non-empty payloads, each written after its 4-byte
\* big-endian length, is scanned back into exactly those payloads.
C1_AvccRoundTrip ==
    (scan_pc = "done" /\ framing = "avcc") => nals = units

ContainsStartCode(u) == \E j \in 0..Len(u) : MatchAt(u, StartCode3, j)

\* C2 as stated: a buffer of non-empty payloads, each written after the start
\* code 00 00 01, is scanned back into exactly those payloads, whatever bytes
\* the payloads hold.
C2_StartCodeRoundTrip_AnyPayload ==
    (scan_pc = "done" /\ framing = "sc3") => nals = units

\* C2 as amended: a buffer of non-empty payloads none of which contains the
\* bytes 00 00 01, each written after the start code 00 00 01, is scanned
\* back into exactly those payloads, in the original order and number.
C2_StartCodeRoundTrip ==
    (/\ scan_pc = "done"
     /\ framing = "sc3"
     /\ \A k \in 1..Len(units) : ~ContainsStartCode(units[k]))
    => nals = units

\* C2's case: two payloads, one ending in a zero byte, scanned back.
C2_Witness ==
    /\ scan_pc = "done"
    /\ framing = "sc3"
    /\ units = << << 1, 0 >>, << 0, 1, 1 >> >>
    /\ nals = units


NoZeroByte(u) == \A j \in 1..Len(u) : u[j] # 0

NAL_UNIT_TYPE_SEI == 6
SEI_PAYLOAD_TYPE_PIC_TIMING == 1
SEI_PAYLOAD_TYPE_USER_DATA_UNREGISTERED == 5
UUID_SIZE == 16
TIME_OFFSET_LENGTH == 24
RBSP_TRAILING == 128

\* data[0] & 0x1F
nal_unit_type(d) == d[1] % 32

is_sei(d) == nal_unit_type(d) = NAL_UNIT_TYPE_SEI

Pow2(n) == 2 ^ n

\* BitStream(data): bit k (0-based, MSB first) of the buffer.
BitAt(d, k) == (d[(k \div 8) + 1] \div Pow2(7 - (k % 8))) % 2

NumBits(d) == 8 * Len(d)

\* bits.read('uint:w') at bit position p, for p + w <= NumBits(d)
RECURSIVE UIntAt(_, _, _)
UIntAt(d, p, w) ==
    IF w = 0 THEN 0 ELSE 2 * UIntAt(d, p, w - 1) + BitAt(d, p + w - 1)

\* bits.read('int:w'): two's complement
SIntAt(d, p, w) ==
    LET u == UIntAt(d, p, w) IN
    IF u >= Pow2(w - 1) THEN u - Pow2(w) ELSE u

\* A run of reads of the widths ws from bit position p: a read that would
\* pass the end raises ReadError and leaves the position where it was.
RECURSIVE ReadAll(_, _, _)
ReadAll(n, p, ws) ==
    IF ws = << >> THEN [ ok |-> TRUE, pos |-> p ]
    ELSE IF p + Head(ws) > n THEN [ ok |-> FALSE, pos |-> p ]
    ELSE ReadAll(n, p + Head(ws), Tail(ws))

\* A mutant of TimeFull: the seconds are read and not stored.
TimeFull_SecondsDropped(d, q) ==
    LET r == ReadAll(NumBits(d), q, << 6, 6, 5 >>) IN
    IF r.ok
    THEN [ ok |-> TRUE, pos |-> r.pos,
           seconds |-> None,
           minutes |-> Some(UIntAt(d, q + 6, 6)),
           hours   |-> Some(UIntAt(d, q + 12, 5)) ]
    ELSE [ ok |-> FALSE, pos |-> r.pos,
           seconds |-> None, minutes |-> None, hours |-> None ]

\* The three reads of the full_timestamp_flag branch.
TimeFull(d, q) ==
    LET r == ReadAll(NumBits(d), q, << 6, 6, 5 >>) IN
    IF r.ok
    THEN [ ok |-> TRUE, pos |-> r.pos,
           seconds |-> Some(UIntAt(d, q, 6)),
           minutes |-> Some(UIntAt(d, q + 6, 6)),
           hours   |-> Some(UIntAt(d, q + 12, 5)) ]
    ELSE [ ok |-> FALSE, pos |-> r.pos,
           seconds |-> None, minutes |-> None, hours |-> None ]

TimeFail(p) ==
    [ ok |-> FALSE, pos |-> p, seconds |-> None, minutes |-> None, hours |-> None ]

\* A mutant of TimeFlags: hours is read after minutes without hours_flag
\* being tested.
TimeFlags_HoursUnguarded(d, q) ==
    LET n == NumBits(d) IN
    IF q + 1 > n THEN TimeFail(q)
    ELSE IF BitAt(d, q) = 0
    THEN [ ok |-> TRUE, pos |-> q + 1,
           seconds |-> None, minutes |-> None, hours |-> None ]
    ELSE IF q + 7 > n THEN TimeFail(q + 1)
    ELSE IF q + 8 > n THEN TimeFail(q + 7)
    ELSE IF BitAt(d, q + 7) = 0
    THEN [ ok |-> TRUE, pos |-> q + 8,
           seconds |-> Some(UIntAt(d, q + 1, 6)),
           minutes |-> None, hours |-> None ]
    ELSE IF q + 14 > n THEN TimeFail(q + 8)
    ELSE IF q + 15 > n THEN TimeFail(q + 14)
    ELSE IF q + 20 > n THEN TimeFail(q + 15)
    ELSE [ ok |-> TRUE, pos |-> q + 20,
           seconds |-> Some(UIntAt(d, q + 1, 6)),
           minutes |-> Some(UIntAt(d, q + 8, 6)),
           hours   |-> Some(UIntAt(d, q + 15, 5)) ]

\* The flag chain of the other branch: seconds_flag, minutes_flag, hours_flag.
TimeFlags(d, q) ==
    LET n == NumBits(d) IN
    IF q + 1 > n THEN TimeFail(q)
    ELSE IF BitAt(d, q) = 0
    THEN [ ok |-> TRUE, pos |-> q + 1,
           seconds |-> None, minutes |-> None, hours |-> None ]
    ELSE IF q + 7 > n THEN TimeFail(q + 1)
    ELSE IF q + 8 > n THEN TimeFail(q + 7)
    ELSE IF BitAt(d, q + 7) = 0
    THEN [ ok |-> TRUE, pos |-> q + 8,
           seconds |-> Some(UIntAt(d, q + 1, 6)),
           minutes |-> None, hours |-> None ]
    ELSE IF q + 14 > n THEN TimeFail(q + 8)
    ELSE IF q + 15 > n THEN TimeFail(q + 14)
    ELSE IF BitAt(d, q + 14) = 0
    THEN [ ok |-> TRUE, pos |-> q + 15,
           seconds |-> Some(UIntAt(d, q + 1, 6)),
           minutes |-> Some(UIntAt(d, q + 8, 6)), hours |-> None ]
    ELSE IF q + 20 > n THEN TimeFail(q + 15)
    ELSE [ ok |-> TRUE, pos |-> q + 20,
           seconds |-> Some(UIntAt(d, q + 1, 6)),
           minutes |-> Some(UIntAt(d, q + 8, 6)),
           hours   |-> Some(UIntAt(d, q + 15, 5)) ]

\* _parse_clock_timestamp(bits, time_offset_length): the ClockTimestamp
\* (None after a ReadError) and the position the bit reader is left at.
ParseClockTimestamp(d, p, tol) ==
    LET n == NumBits(d)
        hdr == ReadAll(n, p, << 2, 1, 5, 1, 1, 1, 8 >>)
    IN
    IF ~hdr.ok THEN [ ct |-> None, pos |-> hdr.pos ]
    ELSE
    LET full == BitAt(d, p + 8) = 1
        t == IF full THEN TimeFull(d, p + 19) ELSE TimeFlags(d, p + 19)
        base == [ ct_type |-> UIntAt(d, p, 2),
                  nuit_field_based_flag |-> BitAt(d, p + 2) = 1,
                  counting_type |-> UIntAt(d, p + 3, 5),
                  full_timestamp_flag |-> full,
                  discontinuity_flag |-> BitAt(d, p + 9) = 1,
                  cnt_dropped_flag |-> BitAt(d, p + 10) = 1,
                  n_frames |-> UIntAt(d, p + 11, 8),
                  seconds_value |-> t.seconds,
                  minutes_value |-> t.minutes,
                  hours_value |-> t.hours,
                  time_offset |-> None ]
    IN
    IF ~t.ok THEN [ ct |-> None, pos |-> t.pos ]
    ELSE IF tol > 0
    THEN IF t.pos + tol > n THEN [ ct |-> None, pos |-> t.pos ]
         ELSE [ ct |-> Some([ base EXCEPT
                              !.time_offset = Some(SIntAt(d, t.pos, tol)) ]),
                pos |-> t.pos + tol ]
    ELSE [ ct |-> Some(base), pos |-> t.pos ]

\* str of one decimal digit
DigitChar(n) == << "0", "1", "2", "3", "4", "5", "6", "7", "8", "9" >>[n + 1]

RECURSIVE Decimal(_)
Decimal(n) ==
    IF n < 10 THEN << DigitChar(n) >>
    ELSE Append(Decimal(n \div 10), DigitChar(n % 10))

\* A mutant of Format02d: no zero padding ('{:d}').
Format02d_NoPad(n) == Decimal(n)

\* f"{n:02d}" for n >= 0: the decimal digits, zero-padded to two characters
Format02d(n) == IF n < 10 THEN << "0" >> \o Decimal(n) ELSE Decimal(n)

\* x or 0, for an Optional int
OrZero(o) == IF IsSome(o) /\ Get(o) # 0 THEN Get(o) ELSE 0

\* The ct_dict built by _parse_pic_timing for one ClockTimestamp.
CtDict(ct) ==
    [ ct_type |-> ct.ct_type,
      counting_type |-> ct.counting_type,
      n_frames |-> ct.n_frames,
      time_offset |-> ct.time_offset,
      hours |-> ct.hours_value,
      minutes |-> IF IsSome(ct.hours_value)
                  THEN Some(OrZero(ct.minutes_value)) ELSE None,
      seconds |-> IF IsSome(ct.hours_value)
                  THEN Some(OrZero(ct.seconds_value)) ELSE None,
      text |-> IF IsSome(ct.hours_value)
               THEN Some(Format02d(Get(ct.hours_value)) \o << ":" >>
                         \o Format02d(OrZero(ct.minutes_value)) \o << ":" >>
                         \o Format02d(OrZero(ct.seconds_value)))
               ELSE None ]

\* NumClockTS by pic_struct
NumClockTS(pic_struct) ==
    CASE pic_struct \in { 0, 1, 2 } -> 1
      [] pic_struct \in { 3, 4, 7 } -> 2
      [] pic_struct \in { 5, 6, 8 } -> 3
      [] OTHER -> 1

\* for i in range(num_clock_ts): the loop of _parse_pic_timing from bit
\* position p with k iterations left; ok = FALSE when a clock_timestamp_flag
\* read raises ReadError.
RECURSIVE ClockTsLoop(_, _, _, _)
ClockTsLoop(d, p, k, acc) ==
    IF k = 0 THEN [ ok |-> TRUE, cts |-> acc ]
    ELSE IF p + 1 > NumBits(d) THEN [ ok |-> FALSE, cts |-> acc ]
    ELSE IF BitAt(d, p) = 0 THEN ClockTsLoop(d, p + 1, k - 1, acc)
    ELSE LET r == ParseClockTimestamp(d, p + 1, TIME_OFFSET_LENGTH) IN
         ClockTsLoop(d, r.pos, k - 1,
                     IF IsSome(r.ct) THEN Append(acc, CtDict(Get(r.ct))) ELSE acc)

\* A parsed payload dict.  Keys a variant does not hold are None here;
\* clock_timestamps is empty when the key is absent.
PayloadDict(type, pic_struct, cts, uuid, user_data) ==
    [ type |-> type, pic_struct |-> pic_struct, clock_timestamps |-> cts,
      uuid |-> uuid, data |-> user_data,
      payload_type |-> None, payload_size |-> None ]

\* _parse_pic_timing(data) with the default flags: Optional dict
ParsePicTiming(d) ==
    IF 4 > NumBits(d) THEN None
    ELSE LET pic_struct == UIntAt(d, 0, 4)
             loop == ClockTsLoop(d, 4, NumClockTS(pic_struct), << >>)
         IN  IF loop.ok
             THEN Some(PayloadDict("pic_timing", Some(pic_struct), loop.cts,
                                   None, None))
             ELSE None

HexChar(n) ==
    << "0", "1", "2", "3", "4", "5", "6", "7",
       "8", "9", "a", "b", "c", "d", "e", "f" >>[n + 1]

\* bytes.hex()
Hex(d) == Concat([ k \in 1..Len(d) |->
                   << HexChar(d[k] \div 16), HexChar(d[k] % 16) >> ])

\* _parse_sei_payload(data, payload_type): Optional dict
ParseSeiPayload(d, payload_type) ==
    IF payload_type = SEI_PAYLOAD_TYPE_PIC_TIMING THEN ParsePicTiming(d)
    ELSE IF payload_type = SEI_PAYLOAD_TYPE_USER_DATA_UNREGISTERED
            /\ Len(d) >= UUID_SIZE
    THEN Some(PayloadDict("user_data_unregistered", None, << >>,
                          Some(Hex(Slice(d, 0, UUID_SIZE))),
                          IF Len(d) > UUID_SIZE
                          THEN Some(Hex(SliceFrom(d, UUID_SIZE))) ELSE None))
    ELSE None

\* A mutant of ReadSeiField: a 0xFF byte adds 256.
RECURSIVE ReadSeiField_Add256(_, _, _)
ReadSeiField_Add256(d, p, acc) ==
    IF p < Len(d) /\ d[p + 1] = 255 THEN ReadSeiField_Add256(d, p + 1, acc + 256)
    ELSE IF p < Len(d) THEN [ value |-> acc + d[p + 1], pos |-> p + 1 ]
    ELSE [ value |-> acc, pos |-> p ]

\* The byte loop that reads payload_type, and again payload_size.
RECURSIVE ReadSeiField(_, _, _)
ReadSeiField(d, p, acc) ==
    IF p < Len(d) /\ d[p + 1] = 255 THEN ReadSeiField(d, p + 1, acc + 255)
    ELSE IF p < Len(d) THEN [ value |-> acc + d[p + 1], pos |-> p + 1 ]
    ELSE [ value |-> acc, pos |-> p ]

\* A mutant of SeiMessage: where the payload does not fit, the position the
\* message started at is returned.
SeiMessage_Rewind(start_pos, ty, sz, fits, parsed) ==
    [ payload |-> IF IsSome(parsed)
                  THEN Some([ Get(parsed) EXCEPT
                              !.payload_type = Some(ty.value),
                              !.payload_size = Some(sz.value) ])
                  ELSE None,
      pos |-> IF fits THEN sz.pos + sz.value ELSE start_pos,
      envelope |-> [ start |-> start_pos,
                     payload_type |-> ty.value, type_end |-> ty.pos,
                     payload_size |-> sz.value, size_end |-> sz.pos,
                     fits |-> fits, parsed |-> IsSome(parsed) ] ]

\* What _read_sei_payload returns once payload_type (ty) and payload_size
\* (sz) are read and the payload, where it fits, has been parsed.
SeiMessage(start_pos, ty, sz, fits, parsed) ==
    [ payload |-> IF IsSome(parsed)
                  THEN Some([ Get(parsed) EXCEPT
                              !.payload_type = Some(ty.value),
                              !.payload_size = Some(sz.value) ])
                  ELSE None,
      pos |-> IF fits THEN sz.pos + sz.value ELSE sz.pos,
      envelope |-> [ start |-> start_pos,
                     payload_type |-> ty.value, type_end |-> ty.pos,
                     payload_size |-> sz.value, size_end |-> sz.pos,
                     fits |-> fits, parsed |-> IsSome(parsed) ] ]

\* _read_sei_payload(data, start_pos): (payload, new position), and the
\* envelope it read on the way.
ReadSeiPayload(d, start_pos) ==
    LET ty == ReadSeiField(d, start_pos, 0)
        sz == ReadSeiField(d, ty.pos, 0)
        fits == sz.pos + sz.value <= Len(d)
    IN  SeiMessage(start_pos, ty, sz, fits,
                   IF fits
                   THEN ParseSeiPayload(Slice(d, sz.pos, sz.pos + sz.value), ty.value)
                   ELSE None)

\* ---- the NAL units the SEI parser is fed

\* w bits of v, most significant first (v >= 0)
BitsOf(v, w) == [ k \in 1..w |-> (v \div Pow2(w - k)) % 2 ]

\* w bits of the two's complement of v
SBitsOf(v, w) == BitsOf(IF v < 0 THEN v + Pow2(w) ELSE v, w)

\* The bits written out as bytes, the last byte padded with zero bits.
PackBits(bits) ==
    [ j \in 1..((Len(bits) + 7) \div 8) |->
        LET b(k) == IF (j - 1) * 8 + k <= Len(bits) THEN bits[(j - 1) * 8 + k] ELSE 0
        IN  128 * b(1) + 64 * b(2) + 32 * b(3) + 16 * b(4)
            + 8 * b(5) + 4 * b(6) + 2 * b(7) + b(8) ]

\* The payload of a picture-timing message with pic_struct = 0 and one clock
\* timestamp with clock_timestamp_flag and full_timestamp_flag set.
EncodePicTiming(f) ==
    PackBits(BitsOf(0, 4) \o << 1 >>
             \o BitsOf(f.ct_type, 2) \o << 0 >> \o BitsOf(f.counting_type, 5)
             \o << 1 >> \o << 0 >> \o << 0 >> \o BitsOf(f.n_frames, 8)
             \o BitsOf(f.seconds, 6) \o BitsOf(f.minutes, 6) \o BitsOf(f.hours, 5)
             \o SBitsOf(f.time_offset, TIME_OFFSET_LENGTH))

\* The SEI NAL unit holding that one message, with or without the RBSP
\* trailing byte.
EncodeTimingNal(f) ==
    LET body == EncodePicTiming(f) IN
    << NAL_UNIT_TYPE_SEI, SEI_PAYLOAD_TYPE_PIC_TIMING, Len(body) >> \o body
    \o (IF f.trailing THEN << RBSP_TRAILING >> ELSE << >>)

TimingFields ==
    [ hours : { 0, 9, 12, 23, 31 },
      minutes : { 0, 5, 30, 59, 63 },
      seconds : { 0, 7, 45, 60, 63 },
      ct_type : { 0, 2 },
      counting_type : { 4 },
      n_frames : { 0, 255 },
      time_offset : { 0, -1, 8388607 },
      trailing : BOOLEAN ]

\* Pieces a generic NAL unit body is put together from.
SeiChunks ==
    { << 255, 255, 5 >>, << 255, 255, 42 >>, << 255 >>, << 0 >>, << 1 >>,
      << 2 >>, << 5 >>, << 4 >>, << 128 >>, << 170, 187 >>,
      \* a picture-timing payload body: pic_struct 0, no clock timestamp
      << 1, 1, 0 >> }

\* The seconds, minutes and hours part of a clock timestamp: the three
\* fields with full_timestamp_flag set, else the flag chain.
EncodeClockTime(f) ==
    IF f.full_timestamp_flag
    THEN BitsOf(f.seconds, 6) \o BitsOf(f.minutes, 6) \o BitsOf(f.hours, 5)
    ELSE IF ~f.seconds_flag THEN << 0 >>
    ELSE << 1 >> \o BitsOf(f.seconds, 6) \o
         (IF ~f.minutes_flag THEN << 0 >>
          ELSE << 1 >> \o BitsOf(f.minutes, 6) \o
               (IF ~f.hours_flag THEN << 0 >>
                ELSE << 1 >> \o BitsOf(f.hours, 5)))

\* The bits of a clock timestamp.
ClockTimestampBits(f) ==
    BitsOf(f.ct_type, 2) \o << 0 >> \o BitsOf(f.counting_type, 5)
    \o << IF f.full_timestamp_flag THEN 1 ELSE 0 >>
    \o << 0 >> \o << 0 >> \o BitsOf(f.n_frames, 8)
    \o EncodeClockTime(f)
    \o SBitsOf(f.time_offset, TIME_OFFSET_LENGTH)

\* The bytes of a clock timestamp written after f.lead zero bits.
EncodeClockTimestamp(f) == PackBits(BitsOf(0, f.lead) \o ClockTimestampBits(f))

\* What stands in the place of one clock timestamp of a picture-timing
\* payload: clock_timestamp_flag unset ("none"), or set and followed by a
\* clock timestamp with seconds ("secs"), seconds and minutes ("mins") or
\* the full timestamp ("full").
SlotFields(slot) ==
    [ ct_type |-> 2, counting_type |-> 4, n_frames |-> 3,
      full_timestamp_flag |-> slot = "full",
      seconds_flag |-> TRUE, minutes_flag |-> slot = "mins", hours_flag |-> FALSE,
      seconds |-> 45, minutes |-> 30, hours |-> 12, time_offset |-> -1 ]

SlotBits(slot) ==
    IF slot = "none" THEN << 0 >>
    ELSE << 1 >> \o ClockTimestampBits(SlotFields(slot))

\* The SEI NAL unit holding one picture-timing message with the given
\* pic_struct and slots, its payload the last `cut` bytes short.
EncodeSlotsNal(pic_struct, slots, cut) ==
    LET whole == PackBits(BitsOf(pic_struct, 4)
                          \o Concat([ k \in 1..Len(slots) |-> SlotBits(slots[k]) ]))
        body == SubSeq(whole, 1, Len(whole) - cut)
    IN  << NAL_UNIT_TYPE_SEI, SEI_PAYLOAD_TYPE_PIC_TIMING, Len(body) >> \o body

Slots == { "none", "secs", "mins", "full" }


NalHeaders == { 6, 101 }

\* _parse_clock_timestamp is not called on its own
ClkIdle ==
    /\ clk_data = << >> /\ clk_in = None
    /\ clk_out = [ ct |-> None, pos |-> 0 ] /\ clk_pc = "idle"

\* parse_sei is not called
ParseSeiIdle ==
    /\ sei_data = << >> /\ sei_in = None /\ pos = 0
    /\ payloads = << >> /\ env = << >> /\ sei_pc = "idle"

SeiIdle == ParseSeiIdle /\ ClkIdle

SeiInit ==
    /\ \/ \E f \in TimingFields :
            /\ sei_in = Some(f)
            /\ sei_data = EncodeTimingNal(f)
       \/ \E h \in NalHeaders, cs \in SeqsUpTo(SeiChunks, 0, MaxSeiChunks) :
            /\ sei_in = None
            /\ sei_data = << h >> \o Concat(cs)
       \/ \E pic_struct \in { 3, 5 }, slots \in SeqsUpTo(Slots, 1, 3),
              cut \in { 0, 1 } :
            /\ Len(slots) <= NumClockTS(pic_struct)
            /\ sei_in = None
            /\ sei_data = EncodeSlotsNal(pic_struct, slots, cut)
    /\ pos = 1
    /\ payloads = << >>
    /\ env = << >>
    /\ sei_pc = "start"
    /\ ClkIdle

\* if not self.is_sei or len(self.data) < 2: return {}
SeiReject ==
    /\ sei_pc = "start"
    /\ ~is_sei(sei_data) \/ Len(sei_data) < 2
    /\ sei_pc' = "rejected"
    /\ UNCHANGED <<sei_data, sei_in, pos, payloads, env, clk_vars>>
    /\ UNCHANGED <<scan_vars, amf_vars, pipe_vars>>

SeiEnter ==
    /\ sei_pc = "start"
    /\ is_sei(sei_data) /\ Len(sei_data) >= 2
    /\ sei_pc' = "loop"
    /\ UNCHANGED <<sei_data, sei_in, pos, payloads, env, clk_vars>>
    /\ UNCHANGED <<scan_vars, amf_vars, pipe_vars>>

\* One iteration of while pos < len(self.data), with its break test.
SeiStep ==
    /\ sei_pc = "loop"
    /\ pos < Len(sei_data)
    /\ LET r == ReadSeiPayload(sei_data, pos) IN
        /\ payloads' = payloads \o r.payload
        /\ env' = Append(env, r.envelope)
        /\ pos' = r.pos
        /\ sei_pc' = IF r.pos >= Len(sei_data) \/ sei_data[r.pos + 1] = RBSP_TRAILING
                     THEN "done" ELSE "loop"
    /\ UNCHANGED <<sei_data, sei_in, clk_vars>>
    /\ UNCHANGED <<scan_vars, amf_vars, pipe_vars>>

SeiNext == SeiReject \/ SeiEnter \/ SeiStep

\* ---- _parse_clock_timestamp called on its own, at a bit position

ClockFields ==
    [ lead : { 0, 5 },
      ct_type : { 2 },
      counting_type : { 4 },
      n_frames : { 0, 255 },
      full_timestamp_flag : BOOLEAN,
      seconds_flag : BOOLEAN,
      minutes_flag : BOOLEAN,
      hours_flag : BOOLEAN,
      seconds : { 0, 59 },
      minutes : { 0, 30 },
      hours : { 0, 23 },
      time_offset : { 0, -1, 8388607 } ]

ClkInit ==
    /\ \E f \in ClockFields :
         /\ clk_in = Some(f)
         /\ clk_data = EncodeClockTimestamp(f)
    /\ clk_out = [ ct |-> None, pos |-> 0 ]
    /\ clk_pc = "call"
    /\ ParseSeiIdle

\* self._parse_clock_timestamp(bits, time_offset_length), the bit reader
\* standing at the first bit of the clock timestamp
ClkCall ==
    /\ clk_pc = "call"
    /\ clk_out' = ParseClockTimestamp(clk_data, Get(clk_in).lead,
                                      TIME_OFFSET_LENGTH)
    /\ clk_pc' = "done"
    /\ UNCHANGED <<clk_data, clk_in>>
    /\ UNCHANGED <<sei_data, sei_in, pos, payloads, env, sei_pc>>
    /\ UNCHANGED <<scan_vars, amf_vars, pipe_vars>>

ClkNext == ClkCall

\* parse_sei() as a function of the NAL unit's bytes: Optional list of
\* payloads (None for the {} of a NAL unit that is not SEI or too short).
RECURSIVE ParseSeiLoop(_, _, _)
ParseSeiLoop(d, p, acc) ==
    LET r == ReadSeiPayload(d, p)
        acc2 == acc \o r.payload
    IN  IF r.pos >= Len(d) \/ d[r.pos + 1] = RBSP_TRAILING THEN acc2
        ELSE ParseSeiLoop(d, r.pos, acc2)

ParseSei(d) ==
    IF ~is_sei(d) \/ Len(d) < 2 THEN None ELSE Some(ParseSeiLoop(d, 1, << >>))

(***************************************************************************)
(* Claims about the SEI parser, under SeiSpec and ClockSpec.               *)
(***************************************************************************)

\* The two decimal digits of n < 100.
TwoDigits(n) == << DigitChar(n \div 10), DigitChar(n % 10) >>

\* C3: an SEI NAL unit holding one picture-timing payload with pic_struct 0,
\* clock_timestamp_flag and full_timestamp_flag set, encoding hours, minutes
\* and seconds, is parsed to exactly one payload, whose one clock timestamp
\* has the text HH:MM:SS, each field zero-padded to two digits; 12, 30, 45
\* gives 12:30:45.
C3_TimingText ==
    IsSome(sei_in) =>
        /\ sei_pc # "rejected"
        /\ sei_pc = "done" =>
            LET f == Get(sei_in) IN
            /\ Len(payloads) = 1
            /\ payloads[1].type = "pic_timing"
            /\ Len(payloads[1].clock_timestamps) = 1
            /\ payloads[1].clock_timestamps[1].text =
                   Some(TwoDigits(f.hours) \o << ":" >> \o TwoDigits(f.minutes)
                        \o << ":" >> \o TwoDigits(f.seconds))
            /\ (f.hours = 12 /\ f.minutes = 30 /\ f.seconds = 45) =>
                   payloads[1].clock_timestamps[1].text
                       = Some(<< "1", "2", ":", "3", "0", ":", "4", "5" >>)

\* C3's case: the payload of 09:05:07 has been parsed.
C3_Witness ==
    /\ sei_pc = "done"
    /\ IsSome(sei_in)
    /\ Get(sei_in).hours = 9 /\ Get(sei_in).minutes = 5 /\ Get(sei_in).seconds = 7
    /\ Len(payloads) = 1
    /\ payloads[1].clock_timestamps[1].text
           = Some(<< "0", "9", ":", "0", "5", ":", "0", "7" >>)

\* The number of 0xFF bytes of d from offset p on.
LeadingFF(d, p) ==
    CHOOSE k \in 0..(Len(d) - p) :
        /\ \A j \in 1..k : d[p + j] = 255
        /\ p + k = Len(d) \/ d[p + k + 1] # 255

\* The field that starts at offset p has a byte that ends it.
FieldEnds(d, p) == p <= Len(d) /\ p + LeadingFF(d, p) < Len(d)

\* C4: payload_type and payload_size are each decoded as 255 times the number
\* of leading 0xFF bytes plus the first byte that is not 0xFF, and exactly
\* those bytes are consumed; FF FF 05 decodes to 515 and FF FF 2A to 552.
C4_EnvelopeDecoding ==
    \A k \in 1..Len(env) :
        LET e == env[k]
            kt == LeadingFF(sei_data, e.start)
            ks == LeadingFF(sei_data, e.type_end)
        IN  /\ FieldEnds(sei_data, e.start) =>
                /\ e.payload_type = 255 * kt + sei_data[e.start + kt + 1]
                /\ e.type_end = e.start + kt + 1
            /\ (FieldEnds(sei_data, e.start) /\ FieldEnds(sei_data, e.type_end)) =>
                /\ e.payload_size = 255 * ks + sei_data[e.type_end + ks + 1]
                /\ e.size_end = e.type_end + ks + 1
            /\ MatchAt(sei_data, << 255, 255, 5 >>, e.start) => e.payload_type = 515
            /\ (FieldEnds(sei_data, e.start)
                /\ MatchAt(sei_data, << 255, 255, 42 >>, e.type_end))
               => e.payload_size = 552

\* C4's case: the envelope FF FF 05 FF FF 2A has been read.
C4_Witness ==
    /\ Len(env) >= 1
    /\ Len(sei_data) >= 7
    /\ SubSeq(sei_data, 2, 7) = << 255, 255, 5, 255, 255, 42 >>
    /\ env[1].payload_type = 515
    /\ env[1].payload_size = 552
    /\ env[1].size_end = 7

\* The message read at env[k] is well framed: its type and its size are each
\* ended by a byte that is not 0xFF, and the declared payload fits.
WellFramed(k) ==
    /\ FieldEnds(sei_data, env[k].start)
    /\ FieldEnds(sei_data, env[k].type_end)
    /\ env[k].fits

\* C8: for every well-framed message whose payload_type is neither 1 nor 5,
\* parse_sei returns a payload that keeps its type and size, so that there
\* are as many payloads as well-framed messages.
C8_UnknownPayloadRetained ==
    sei_pc = "done" =>
        \A k \in 1..Len(env) :
            (WellFramed(k) /\ env[k].payload_type \notin { 1, 5 }) =>
                \E j \in 1..Len(payloads) :
                    /\ payloads[j].payload_type = Some(env[k].payload_type)
                    /\ payloads[j].payload_size = Some(env[k].payload_size)


C19_ClockFieldsInRange ==
    \A k \in 1..Len(payloads) :
        \A j \in 1..Len(payloads[k].clock_timestamps) :
            LET ct == payloads[k].clock_timestamps[j] IN
            /\ IsSome(ct.hours) => Get(ct.hours) \in 0..23
            /\ IsSome(ct.minutes) => Get(ct.minutes) \in 0..59
            /\ IsSome(ct.seconds) => Get(ct.seconds) \in 0..59


\* The bits the flag chain of a clock timestamp takes.
ChainBits(f) ==
    IF ~f.seconds_flag THEN 1
    ELSE IF ~f.minutes_flag THEN 8
    ELSE IF ~f.hours_flag THEN 15
    ELSE 20

\* C17: with full_timestamp_flag unset, seconds is present exactly when
\* seconds_flag is set, minutes when seconds_flag and minutes_flag are, hours
\* when all three are; a present field has the value written, zero included,
\* an absent one is None; and no bit is read for an absent field: the reader
\* is left after the flags, the present fields and time_offset, which is read
\* as written.
C17_FlagChain ==
    ( clk_pc = "done" /\ ~Get(clk_in).full_timestamp_flag ) =>
        LET f == Get(clk_in) IN
        /\ IsSome(clk_out.ct)
        /\ LET ct == Get(clk_out.ct) IN
            /\ ct.seconds_value =
                   (IF f.seconds_flag THEN Some(f.seconds) ELSE None)
            /\ ct.minutes_value =
                   (IF f.seconds_flag /\ f.minutes_flag
                    THEN Some(f.minutes) ELSE None)
            /\ ct.hours_value =
                   (IF f.seconds_flag /\ f.minutes_flag /\ f.hours_flag
                    THEN Some(f.hours) ELSE None)
            /\ ct.time_offset = Some(f.time_offset)
        /\ clk_out.pos = f.lead + 19 + ChainBits(f) + TIME_OFFSET_LENGTH

\* C17's case: seconds 0 and minutes read, hours_flag unset.
C17_Witness ==
    /\ clk_pc = "done"
    /\ ~Get(clk_in).full_timestamp_flag
    /\ Get(clk_in).seconds_flag /\ Get(clk_in).minutes_flag
    /\ ~Get(clk_in).hours_flag
    /\ Get(clk_in).seconds = 0
    /\ IsSome(clk_out.ct)
    /\ Get(clk_out.ct).seconds_value = Some(0)
    /\ Get(clk_out.ct).minutes_value = Some(30)
    /\ Get(clk_out.ct).hours_value = None


\* C21: in every clock timestamp _parse_clock_timestamp returns, hours
\* present implies minutes present and minutes present implies seconds
\* present, with full_timestamp_flag set or unset; so where the ct_dict gets
\* its text, its minutes and seconds are the values read, never the default
\* that `or 0` puts in for an absent field.
C21_PresenceNested ==
    ( clk_pc = "done" /\ IsSome(clk_out.ct) ) =>
        LET ct == Get(clk_out.ct) IN
        /\ IsSome(ct.hours_value) => IsSome(ct.minutes_value)
        /\ IsSome(ct.minutes_value) => IsSome(ct.seconds_value)
        /\ IsSome(CtDict(ct).text) =>
               /\ CtDict(ct).minutes = ct.minutes_value
               /\ CtDict(ct).seconds = ct.seconds_value

\* C21's case: the flag chain has read all three fields, seconds 0 among
\* them.
C21_Witness ==
    /\ clk_pc = "done"
    /\ ~Get(clk_in).full_timestamp_flag
    /\ IsSome(clk_out.ct)
    /\ Get(clk_out.ct).hours_value = Some(23)
    /\ Get(clk_out.ct).minutes_value = Some(30)
    /\ Get(clk_out.ct).seconds_value = Some(0)
    /\ IsSome(CtDict(Get(clk_out.ct)).text)


\* C22: where the one message of a NAL unit is a picture-timing payload
\* whose pic_struct announces several clock timestamps, every clock timestamp
\* parsed completely is in the payload parse_sei returns, also when a later
\* read of the same payload runs past its end.
C22_CompleteTimestampsKept ==
    ( /\ sei_pc = "done"
      /\ Len(env) = 1
      /\ env[1].fits
      /\ env[1].payload_type = SEI_PAYLOAD_TYPE_PIC_TIMING
      /\ env[1].payload_size >= 1 ) =>
        LET d == Slice(sei_data, env[1].size_end,
                       env[1].size_end + env[1].payload_size)
            announced == NumClockTS(UIntAt(d, 0, 4))
            loop == ClockTsLoop(d, 4, announced, << >>)
        IN  ( announced > 1 /\ loop.cts # << >> ) =>
                /\ Len(payloads) = 1
                /\ payloads[1].clock_timestamps = loop.cts

(***************************************************************************)
(* AMF0 decoder (utils/amf_analyzer.py).                                   *)
(***************************************************************************)
AMF0_NUMBER == 0
AMF0_BOOLEAN == 1
AMF0_STRING == 2
AMF0_OBJECT == 3
AMF0_NULL == 5
AMF0_UNDEFINED == 6
AMF0_ECMA_ARRAY == 8
AMF0_OBJECT_END == 9
AMF0_STRICT_ARRAY == 10
AMF0_LONG_STRING == 12

\* The Python values the decoder returns, tagged by their type t.  n holds
\* the numbers of a scalar: of a float the sign, exponent and fraction fields
\* of its IEEE-754 double, of a bool 0 or 1, of a str its code points.  m
\* holds the items of a dict, as the set of its <<key, value>> pairs.
PyFloat(sign, exponent, fraction) ==
    [ t |-> "float", n |-> << sign, exponent >> \o fraction, m |-> {} ]
PyBool(b) == [ t |-> "bool", n |-> << IF b THEN 1 ELSE 0 >>, m |-> {} ]
PyStr(cs) == [ t |-> "str", n |-> cs, m |-> {} ]
PyDict(items) == [ t |-> "dict", n |-> << >>, m |-> items ]
PyNone == [ t |-> "None", n |-> << >>, m |-> {} ]

EmptyDict == {}

\* obj[key] = value
DictSet(items, key, value) ==
    { it \in items : it[1] # key } \cup { << key, value >> }

\* A raised exception (IndexError, struct.error, UnicodeDecodeError).
Raise == [ ok |-> FALSE, value |-> PyNone, offset |-> 0 ]
Return(value, off) == [ ok |-> TRUE, value |-> value, offset |-> off ]

\* read_u8: data[offset]
ReadU8(d, off) ==
    IF off < Len(d) THEN Return(d[off + 1], off + 1) ELSE Raise

\* A mutant of ReadU16: the two bytes are read little-endian.
ReadU16_LittleEndian(d, off) ==
    IF off + 2 <= Len(d)
    THEN Return(d[off + 1] + 256 * d[off + 2], off + 2)
    ELSE Raise

\* read_u16: struct.unpack('>H', data[offset:offset+2])
ReadU16(d, off) ==
    IF off + 2 <= Len(d)
    THEN Return(256 * d[off + 1] + d[off + 2], off + 2)
    ELSE Raise

\* read_u32: struct.unpack('>I', data[offset:offset+4]).  The lengths of the
\* model stay below 2^31.
ReadU32(d, off) ==
    IF off + 4 <= Len(d)
    THEN Return(16777216 * d[off + 1] + 65536 * d[off + 2]
                + 256 * d[off + 3] + d[off + 4], off + 4)
    ELSE Raise

\* read_double: struct.unpack('>d', data[offset:offset+8]), as the fields of
\* the double: sign (1 bit), exponent (11 bits), fraction (52 bits, as its
\* leading 4 bits and the 6 bytes that follow).
ReadDouble(d, off) ==
    IF off + 8 <= Len(d)
    THEN Return(PyFloat(d[off + 1] \div 128,
                        (d[off + 1] % 128) * 16 + d[off + 2] \div 16,
                        << d[off + 2] % 16 >> \o SubSeq(d, off + 3, off + 8)),
                off + 8)
    ELSE Raise

\* bytes.decode('utf-8'), for the bytes of the model: ASCII bytes decode to
\* their code points, and 0xF8..0xFF occur in no UTF-8 text.
Utf8Valid(bs) == \A k \in 1..Len(bs) : bs[k] < 128

\* read_string(data, offset, is_long): the slice is clipped to the buffer
\* and the returned offset is not.
ReadString(d, off, is_long) ==
    LET len == IF is_long THEN ReadU32(d, off) ELSE ReadU16(d, off) IN
    IF ~len.ok THEN Raise
    ELSE LET bs == Slice(d, len.offset, len.offset + len.value) IN
         IF Utf8Valid(bs) THEN Return(PyStr(bs), len.offset + len.value)
         ELSE Raise

\* parse_amf0_value, and the while True loop shared by the Object branch and
\* parse_ecma_array.
RECURSIVE ParseAmf0Value(_, _), ParseProperties(_, _, _)
ParseProperties(d, off, obj) ==
    LET key == ReadString(d, off, FALSE) IN
    IF ~key.ok THEN Raise
    ELSE IF key.value.n = << >> /\ key.offset >= Len(d) THEN Raise
    ELSE IF key.value.n = << >> /\ d[key.offset + 1] = AMF0_OBJECT_END
    THEN Return(PyDict(obj), key.offset + 1)
    ELSE LET val == ParseAmf0Value(d, key.offset) IN
         IF ~val.ok THEN Raise
         ELSE ParseProperties(d, val.offset, DictSet(obj, key.value.n, val.value))

\* A mutant of ParseEcmaArray: the loop is bounded by the array length read,
\* and the terminator is not looked for.
RECURSIVE CountedProperties(_, _, _, _)
CountedProperties(d, off, obj, n) ==
    IF n = 0 THEN Return(PyDict(obj), off)
    ELSE LET key == ReadString(d, off, FALSE) IN
         IF ~key.ok THEN Raise
         ELSE LET val == ParseAmf0Value(d, key.offset) IN
              IF ~val.ok THEN Raise
              ELSE CountedProperties(d, val.offset,
                                     DictSet(obj, key.value.n, val.value), n - 1)

ParseEcmaArray_Counted(d, off) ==
    LET array_length == ReadU32(d, off) IN
    IF array_length.ok
    THEN CountedProperties(d, array_length.offset, EmptyDict, array_length.value)
    ELSE Raise

\* parse_ecma_array(data, offset): the array length is read and not used
ParseEcmaArray(d, off) ==
    LET array_length == ReadU32(d, off) IN
    IF array_length.ok
    THEN ParseProperties(d, array_length.offset, EmptyDict)
    ELSE Raise

\* A mutant of UnsupportedMarker: the offset of the marker itself is returned.
UnsupportedMarker_NotConsumed(type_marker, o) == Return(PyNone, o - 1)

\* The else branch of parse_amf0_value, entered with the offset after the
\* marker byte: a warning is logged and (None, offset) returned.
UnsupportedMarker(type_marker, o) == Return(PyNone, o)

ParseAmf0Value(d, off) ==
    LET marker == ReadU8(d, off) IN
    IF ~marker.ok THEN Raise
    ELSE LET type_marker == marker.value
             o == marker.offset
         IN
         CASE type_marker = AMF0_NUMBER -> ReadDouble(d, o)
           [] type_marker = AMF0_BOOLEAN ->
                LET val == ReadU8(d, o) IN
                IF val.ok THEN Return(PyBool(val.value # 0), val.offset) ELSE Raise
           [] type_marker = AMF0_STRING -> ReadString(d, o, FALSE)
           [] type_marker = AMF0_LONG_STRING -> ReadString(d, o, TRUE)
           [] type_marker = AMF0_OBJECT -> ParseProperties(d, o, EmptyDict)
           [] type_marker = AMF0_ECMA_ARRAY -> ParseEcmaArray(d, o)
           [] type_marker \in { AMF0_NULL, AMF0_UNDEFINED } -> Return(PyNone, o)
           [] OTHER -> UnsupportedMarker(type_marker, o)

OnFI == << 111, 110, 70, 73 >>

\* A mutant of ExtractIteration: the string read is not compared with 'onFI'.
ExtractIteration_AnyCommand(d, off) ==
    IF d[off + 1] = AMF0_STRING
    THEN LET command == ReadString(d, off + 1, FALSE) IN
         IF ~command.ok THEN [ returns |-> TRUE, result |-> None, offset |-> off ]
         ELSE LET onfi_data == ParseAmf0Value(d, command.offset) IN
              IF onfi_data.ok
              THEN [ returns |-> TRUE,
                     result |-> Some([ type |-> "onfi", data |-> onfi_data.value ]),
                     offset |-> off ]
              ELSE [ returns |-> TRUE, result |-> None, offset |-> off ]
    ELSE LET skipped == ParseAmf0Value(d, off) IN
         IF skipped.ok
         THEN [ returns |-> FALSE, result |-> None, offset |-> skipped.offset ]
         ELSE [ returns |-> TRUE, result |-> None, offset |-> off ]

\* What stands for an exception that leaves extract_onfi_data.  The function
\* wraps its loop in try ... except Exception, so nothing of the decoder
\* yields it.
RaisedMessage == [ type |-> "raised", data |-> PyNone ]

\* A mutant of ExtractIteration: the loop is not inside try ... except, and
\* an exception raised by a read leaves the function.
ExtractIteration_NoExcept(d, off) ==
    IF d[off + 1] = AMF0_STRING
    THEN LET command == ReadString(d, off + 1, FALSE) IN
         IF ~command.ok
         THEN [ returns |-> TRUE, result |-> Some(RaisedMessage), offset |-> off ]
         ELSE IF command.value.n = OnFI
         THEN LET onfi_data == ParseAmf0Value(d, command.offset) IN
              IF onfi_data.ok
              THEN [ returns |-> TRUE,
                     result |-> Some([ type |-> "onfi", data |-> onfi_data.value ]),
                     offset |-> off ]
              ELSE [ returns |-> TRUE, result |-> Some(RaisedMessage), offset |-> off ]
         ELSE [ returns |-> FALSE, result |-> None, offset |-> command.offset ]
    ELSE LET skipped == ParseAmf0Value(d, off) IN
         IF skipped.ok
         THEN [ returns |-> FALSE, result |-> None, offset |-> skipped.offset ]
         ELSE [ returns |-> TRUE, result |-> Some(RaisedMessage), offset |-> off ]

\* One iteration of while offset < len(data) of extract_onfi_data, entered
\* with offset = off < len(data): whether the function returns in it (a
\* return statement, or an exception caught by the handler), what it returns,
\* and the offset the loop goes on with.
ExtractIteration(d, off) ==
    IF d[off + 1] = AMF0_STRING
    THEN LET command == ReadString(d, off + 1, FALSE) IN
         IF ~command.ok THEN [ returns |-> TRUE, result |-> None, offset |-> off ]
         ELSE IF command.value.n = OnFI
         THEN LET onfi_data == ParseAmf0Value(d, command.offset) IN
              IF onfi_data.ok
              THEN [ returns |-> TRUE,
                     result |-> Some([ type |-> "onfi", data |-> onfi_data.value ]),
                     offset |-> off ]
              ELSE [ returns |-> TRUE, result |-> None, offset |-> off ]
         ELSE [ returns |-> FALSE, result |-> None, offset |-> command.offset ]
    ELSE LET skipped == ParseAmf0Value(d, off) IN
         IF skipped.ok
         THEN [ returns |-> FALSE, result |-> None, offset |-> skipped.offset ]
         ELSE [ returns |-> TRUE, result |-> None, offset |-> off ]

\* extract_onfi_data(data) as a function of the bytes: Optional dict.
\* ExtractLoop goes on from the outcome `it` of the iteration just run.
RECURSIVE ExtractFrom(_, _)
ExtractLoop(d, it) ==
    IF it.returns THEN it.result ELSE ExtractFrom(d, it.offset)

ExtractFrom(d, off) ==
    IF off >= Len(d) THEN None ELSE ExtractLoop(d, ExtractIteration(d, off))

ExtractOnfiData(d) == ExtractFrom(d, 0)

\* parse_amf0_value is not called on its own
ValIdle ==
    /\ val_data = << >> /\ val_in = None /\ val_at = 0
    /\ val_out = Raise /\ val_pc = "idle"

\* extract_onfi_data is not called
ExtractIdle ==
    /\ amf_data = << >> /\ amf_in = None /\ offset = 0
    /\ onfi = None /\ amf_pc = "idle" /\ visited = << >>

AmfIdle == ExtractIdle /\ ValIdle

\* ---- the buffers the decoder is fed

\* An AMF0 value to encode: a scalar by the Python value it decodes to, an
\* Object by the sequence of its properties [key, value] in the order written.
AmfScalar(py) == [ t |-> py.t, n |-> py.n, props |-> << >> ]
AmfObject(props) == [ t |-> "object", n |-> << >>, props |-> props ]

Float_1_0 == PyFloat(0, 1023, << 0, 0, 0, 0, 0, 0, 0 >>)
Float_2_0 == PyFloat(0, 1024, << 0, 0, 0, 0, 0, 0, 0 >>)
Float_m1_5 == PyFloat(1, 1023, << 8, 0, 0, 0, 0, 0, 0 >>)

EncodeKey(cs) == U16BE(Len(cs)) \o cs

RECURSIVE EncodeValue(_), EncodeProps(_)
EncodeProps(props) ==
    IF props = << >> THEN << 0, 0, AMF0_OBJECT_END >>
    ELSE EncodeKey(Head(props).key) \o EncodeValue(Head(props).value)
         \o EncodeProps(Tail(props))

EncodeValue(x) ==
    CASE x.t = "float" ->
            << AMF0_NUMBER, x.n[1] * 128 + x.n[2] \div 16,
               (x.n[2] % 16) * 16 + x.n[3] >> \o SubSeq(x.n, 4, 9)
      [] x.t = "bool" -> << AMF0_BOOLEAN, x.n[1] >>
      [] x.t = "str" -> << AMF0_STRING >> \o EncodeKey(x.n)
      [] x.t = "None" -> << AMF0_NULL >>
      [] x.t = "object" -> << AMF0_OBJECT >> \o EncodeProps(x.props)

\* The Python value an encoded value stands for.
RECURSIVE PyOf(_), PyOfProps(_)
PyOfProps(props) ==
    IF props = << >> THEN EmptyDict
    ELSE { << Head(props).key, PyOf(Head(props).value) >> }
         \cup PyOfProps(Tail(props))

PyOf(x) ==
    IF x.t = "object" THEN PyDict(PyOfProps(x.props))
    ELSE [ t |-> x.t, n |-> x.n, m |-> {} ]

AmfKeys == { << 115, 100 >>, << 115, 116 >>, << 97 >> }

AmfScalars ==
    { AmfScalar(py) : py \in { Float_1_0, Float_2_0, Float_m1_5, PyBool(TRUE),
                               PyBool(FALSE), PyStr(<< 120 >>), PyNone } }

AmfValues ==
    AmfScalars
    \cup { AmfObject(<< [ key |-> << 97 >>, value |-> AmfScalar(Float_1_0) ] >>),
           AmfObject(<< >>) }

\* Properties with pairwise different names.
AmfPropSeqs ==
    { ps \in SeqsUpTo([ key : AmfKeys, value : AmfValues ], 0, MaxProps) :
        \A a, b \in 1..Len(ps) : a # b => ps[a].key # ps[b].key }

\* Pieces a generic data-track buffer is put together from.
AmfChunks ==
    { << AMF0_STRING, 0, 4 >> \o OnFI,          \* the String 'onFI'
      << AMF0_STRING, 0, 5 >>,                  \* a String header of length 5
      OnFI,                                     \* the bytes o n F I alone
      << AMF0_STRING, 0, 1, 97 >>,              \* the String 'a'
      << 0, 1, 97 >>,                           \* the property name 'a'
      << 0, 0, AMF0_OBJECT_END >>,              \* the end of an Object
      << AMF0_OBJECT >>,
      << AMF0_ECMA_ARRAY, 0, 0, 0, 7 >>,
      << AMF0_NULL >>,
      << AMF0_BOOLEAN, 1 >>,
      << AMF0_STRICT_ARRAY >>,                  \* a marker the decoder has no case for
      << AMF0_LONG_STRING, 0, 0, 0, 4 >>,
      << 255 >> }

AmfInit ==
    /\ \/ \E ps \in AmfPropSeqs :
            /\ amf_in = Some(ps)
            /\ amf_data = EncodeValue(AmfScalar(PyStr(OnFI))) \o EncodeValue(AmfObject(ps))
       \/ \E cs \in SeqsUpTo(AmfChunks, 0, MaxAmfChunks) :
            /\ amf_in = None
            /\ amf_data = Concat(cs)
    /\ offset = 0
    /\ onfi = None
    /\ amf_pc = "loop"
    /\ visited = << >>
    /\ ValIdle

\* One iteration of while offset < len(data).
AmfStep ==
    /\ amf_pc = "loop"
    /\ offset < Len(amf_data)
    /\ LET it == ExtractIteration(amf_data, offset) IN
        /\ onfi' = it.result
        /\ offset' = it.offset
        /\ amf_pc' = IF it.result = Some(RaisedMessage) THEN "raised"
                     ELSE IF it.returns THEN "done" ELSE "loop"
    /\ visited' = Append(visited, offset)
    /\ UNCHANGED <<amf_data, amf_in, val_vars>>
    /\ UNCHANGED <<scan_vars, sei_vars, pipe_vars>>

\* The while condition fails: return None.
AmfExit ==
    /\ amf_pc = "loop"
    /\ offset >= Len(amf_data)
    /\ onfi' = None
    /\ amf_pc' = "done"
    /\ UNCHANGED <<amf_data, amf_in, offset, visited, val_vars>>
    /\ UNCHANGED <<scan_vars, sei_vars, pipe_vars>>

AmfNext == AmfStep \/ AmfExit

\* ---- parse_amf0_value called on its own, at any offset of a buffer

\* The array lengths an EcmaArray is written with.
EcmaCounts == { 0, 1, 2, 7, 16777216 }

\* The bodies an EcmaArray or an Object is written with: the properties and
\* the terminator, and bodies the buffer end cuts short.
EcmaBodies ==
    { EncodeProps(ps) : ps \in AmfPropSeqs }
    \cup { << >>, << 0, 1, 97 >>, << 0, 1, 97, AMF0_NULL >>,
           << 0, 1, 97, AMF0_NULL, 0, 0 >> }

ValInit ==
    /\ \/ \E c \in EcmaCounts, body \in EcmaBodies :
            /\ val_in = Some([ count |-> c, body |-> body ])
            /\ val_data = << AMF0_ECMA_ARRAY >> \o U32BE(c) \o body
            /\ val_at = 0
       \/ \E cs \in SeqsUpTo(AmfChunks, 1, MaxValChunks) :
            /\ val_in = None
            /\ val_data = Concat(cs)
            /\ val_at \in 0..Len(val_data)
    /\ val_out = Raise
    /\ val_pc = "call"
    /\ ExtractIdle

\* parse_amf0_value(data, offset)
ValCall ==
    /\ val_pc = "call"
    /\ val_out' = ParseAmf0Value(val_data, val_at)
    /\ val_pc' = "done"
    /\ UNCHANGED <<val_data, val_in, val_at>>
    /\ UNCHANGED <<amf_data, amf_in, offset, onfi, amf_pc, visited>>
    /\ UNCHANGED <<scan_vars, sei_vars, pipe_vars>>

ValNext == ValCall

(***************************************************************************)
(* Claims about the AMF0 decoder, and on both parsers under CoreLiveSpec.  *)
(***************************************************************************)

\* C5: the String 'onFI' followed by the Object encoding of a mapping of
\* non-empty names to values makes extract_onfi_data return a message whose
\* data is a dict equal to the mapping; {sd: 1.0, st: 2.0} gives sd = 1.0
\* and st = 2.0.
C5_OnfiRoundTrip ==
    (amf_pc = "done" /\ IsSome(amf_in)) =>
        /\ IsSome(onfi)
        /\ Get(onfi).type = "onfi"
        /\ Get(onfi).data.t = "dict"
        /\ Get(onfi).data.m =
               { << Get(amf_in)[k].key, PyOf(Get(amf_in)[k].value) >> :
                   k \in 1..Len(Get(amf_in)) }

\* C5's case: {sd: 1.0, st: 2.0} has been decoded.
C5_Witness ==
    /\ amf_pc = "done"
    /\ amf_in = Some(<< [ key |-> << 115, 100 >>, value |-> AmfScalar(Float_1_0) ],
                        [ key |-> << 115, 116 >>, value |-> AmfScalar(Float_2_0) ] >>)
    /\ IsSome(onfi)
    /\ Get(onfi).data.m = { << << 115, 100 >>, Float_1_0 >>,
                            << << 115, 116 >>, Float_2_0 >> }

\* The AMF0 String 'onFI' stands somewhere in d.
ContainsOnfiString(d) ==
    \E j \in 0..Len(d) : MatchAt(d, << 2, 0, 4 >> \o OnFI, j)

\* C6: on a buffer that contains no String 'onFI' anywhere,
\* extract_onfi_data returns None.
C6_NoOnfiAbsent ==
    (amf_pc = "done" /\ ~ContainsOnfiString(amf_data)) => onfi = None

\* C6's case: a buffer with another string, and with the bytes o n F I after
\* a String header of another length, has been scanned to the end.
C6_Witness ==
    /\ amf_pc = "done"
    /\ ~ContainsOnfiString(amf_data)
    /\ amf_data = << 2, 0, 1, 97 >> \o << 2, 0, 5 >> \o OnFI
    /\ onfi = None

\* Buffers that end inside a value or hold bytes no value can hold: a String
\* declaring 5 bytes where 4 remain, a String of invalid UTF-8, an onFI Object
\* and a top-level Object that the buffer end cuts before the terminator.
BrokenBuffers ==
    { << 2, 0, 5 >> \o OnFI,
      << 2, 0, 5 >> \o OnFI \o << 255 >>,
      << 2, 0, 4 >> \o OnFI \o << 3 >> \o << 0, 1, 97 >>,
      << 3 >> \o << 0, 1, 97 >> \o << 5 >> }

HandledMarkers == { 0, 1, 2, 3, 5, 6, 8, 12 }

\* C12: parse_amf0_value called at an offset o that holds a marker outside
\* 0x00, 0x01, 0x02, 0x03, 0x05, 0x06, 0x08, 0x0C returns the empty value and
\* the offset o + 1: the marker byte alone is consumed.
C12_UnknownMarkerConsumesOneByte ==
    ( /\ val_pc = "done"
      /\ val_at < Len(val_data)
      /\ val_data[val_at + 1] \notin HandledMarkers )
    => val_out = Return(PyNone, val_at + 1)

C12_Witness ==
    /\ val_pc = "done"
    /\ val_at > 0
    /\ val_at + 1 < Len(val_data)
    /\ val_data[val_at + 1] \notin HandledMarkers
    /\ val_out = Return(PyNone, val_at + 1)

\* C13: an EcmaArray decodes to the mapping of the Object with the same body
\* and consumes the same bytes, the four bytes of the array length more,
\* whatever that length says; where the Object fails to decode, so does the
\* EcmaArray.
C13_EcmaArrayCountUnused ==
    ( val_pc = "done" /\ IsSome(val_in) ) =>
        LET body == Get(val_in).body
            object == ParseAmf0Value(<< AMF0_OBJECT >> \o body, 0)
        IN  /\ val_out.ok = object.ok
            /\ object.ok => /\ val_out.value = object.value
                            /\ val_out.offset = object.offset + 4
            /\ \A c \in EcmaCounts :
                   ParseAmf0Value(<< AMF0_ECMA_ARRAY >> \o U32BE(c) \o body, 0)
                       = val_out

C13_Witness ==
    /\ val_pc = "done"
    /\ IsSome(val_in)
    /\ Get(val_in).count = 7
    /\ val_out.ok
    /\ val_out.value.t = "dict"
    /\ Cardinality(val_out.value.m) = 1
    /\ val_out.offset = Len(val_data)

\* C18: a decode that succeeds returns an offset within the buffer: a value
\* the buffer end cuts short is a decode failure, never a success with a
\* shortened value.
C18_TruncationIsFailure ==
    ( val_pc = "done" /\ val_out.ok ) => val_out.offset <= Len(val_data)


\* C20: a message is returned only for a String 'onFI' at the top level:
\* the cursor stands on it, every position the cursor was at before holds a
\* value the decoder decodes whole, none an unsupported marker whose content
\* the cursor went into, and the data is the value decoded right after the
\* String.
C20_OnlyTopLevelOnFI ==
    ( amf_pc = "done" /\ IsSome(onfi) ) =>
        /\ MatchAt(amf_data, << AMF0_STRING, 0, 4 >> \o OnFI, offset)
        /\ LET following == ParseAmf0Value(amf_data, offset + 7) IN
            /\ following.ok
            /\ Get(onfi).data = following.value
        /\ \A k \in 1..Len(visited) :
               amf_data[visited[k] + 1] \in HandledMarkers


\* An iteration of either loop leaves the cursor further on: that of
\* parse_sei always, that of extract_onfi_data unless the function returns
\* in it.
CursorAdvances ==
    /\ sei_pc = "loop" => pos' > pos
    /\ (amf_pc = "loop" /\ amf_pc' = "loop") => offset' > offset

\* parse_sei or extract_onfi_data has returned.
Returned == sei_pc \in { "done", "rejected" } \/ amf_pc \in { "done", "raised" }

\* C24: parse_sei and extract_onfi_data return on every buffer: each
\* iteration of the message loop and of the top-level scan moves the cursor
\* forward by at least one byte, also after a payload that failed, a
\* declared size past the buffer end or an unsupported marker, so there are
\* at most as many iterations as the buffer has bytes.
C24_Terminates ==
    /\ [](Len(env) <= Len(sei_data) /\ Len(visited) <= Len(amf_data))
    /\ [][CursorAdvances]_vars
    /\ <>Returned

\* C24's case: parse_sei has returned after a message whose declared size
\* runs past the buffer end and the message read after it.
C24_Witness ==
    /\ sei_pc = "done"
    /\ Len(env) = 2
    /\ ~env[1].fits
    /\ env[2].start > env[1].start

(***************************************************************************)
(* Analyzers: what each packet puts on the queue.                          *)
(***************************************************************************)
\* NALUnit.parse_sei of stream_analyzer.py, the NALUnit class the analyzers
\* of that file use: every message whose payload fits is kept as its type,
\* size and bytes in hex; a message that does not fit ends the loop.
RECURSIVE ParseSeiRawLoop(_, _, _)
ParseSeiRawLoop(d, p, acc) ==
    IF p >= Len(d) THEN acc
    ELSE LET ty == ReadSeiField(d, p, 0)
             sz == ReadSeiField(d, ty.pos, 0)
         IN  IF sz.pos + sz.value <= Len(d)
             THEN ParseSeiRawLoop(d, sz.pos + sz.value,
                      Append(acc, [ type |-> ty.value, size |-> sz.value,
                                    data |-> Hex(Slice(d, sz.pos, sz.pos + sz.value)) ]))
             ELSE acc

ParseSeiRaw(d) ==
    IF ~is_sei(d) \/ Len(d) < 2 THEN None ELSE Some(ParseSeiRawLoop(d, 1, << >>))

\* not x, for an Optional int: None and 0 are falsy
Falsy(o) == ~IsSome(o) \/ Get(o) = 0

\* The frame_info dicts of the SEI NAL units among ns, in order.  The wall
\* clock 'timestamp', the url and the duration are left out.
RECURSIVE FrameInfos(_, _, _)
FrameInfos(ns, p, stream_type) ==
    IF ns = << >> THEN << >>
    ELSE (IF is_sei(Head(ns))
          THEN << [ stream_type |-> stream_type,
                    stream_time |-> Get(p.dts) * p.time_base,
                    dts |-> p.dts, pts |-> p.pts,
                    sei_data |-> ParseSeiRaw(Head(ns)) ] >>
          ELSE << >>)
         \o FrameInfos(Tail(ns), p, stream_type)

\* A mutant of AnalyzeVideoPacket: the test of packet.dts is missing (a
\* packet without dts is given stream time 0).
AnalyzeVideoPacket_NoDtsTest(p, stream_type) ==
    FrameInfos(ExtractNals(p.data, 0),
               [ p EXCEPT !.dts = IF IsSome(p.dts) THEN p.dts ELSE Some(0) ],
               stream_type)

\* The body of for packet in container.demux(video_stream) of the analyzers
\* of stream_analyzer.py: the records it puts on the queue.
AnalyzeVideoPacket(p, stream_type) ==
    IF Falsy(p.dts) THEN << >>
    ELSE FrameInfos(ExtractNals(p.data, 0), p, stream_type)

\* The TimingInfo of RTMPStreamAnalyzer.process_data_packet (analyzers/rtmp.py)
\* for what extract_onfi_data returned: Optional TimingInfo.
RtmpTimingInfo(p, time_base, onfi_data) ==
    IF IsSome(onfi_data)
    THEN Some([ source |-> "amf_onfi",
                timestamp |-> IF Falsy(p.pts) THEN 0 ELSE Get(p.pts) * time_base,
                stream_time |-> IF Falsy(p.pts) THEN 0 ELSE Get(p.pts) * time_base,
                dts |-> p.dts, pts |-> p.pts,
                extra_data |-> Get(onfi_data) ])
    ELSE None

\* RTMPStreamAnalyzer.process_data_packet of analyzers/rtmp.py
RtmpProcessDataPacket(p, time_base) ==
    RtmpTimingInfo(p, time_base, ExtractOnfiData(p.data))

\* The TimingInfo of FLVStreamAnalyzer.process_data_packet (analyzers/flv.py)
\* for what extract_onfi_data returned: Optional TimingInfo.
FlvTimingInfo(p, time_base, onfi_data) ==
    IF IsSome(onfi_data) /\ Get(onfi_data).data.t = "dict"
    THEN Some([ source |-> "amf_onfi",
                timestamp |-> 0,
                stream_time |-> 0,
                dts |-> p.dts, pts |-> p.pts,
                extra_data |-> Get(onfi_data) ])
    ELSE None

\* FLVStreamAnalyzer.process_data_packet of analyzers/flv.py
FlvProcessDataPacket(p, time_base) ==
    FlvTimingInfo(p, time_base, ExtractOnfiData(p.data))

\* ---- the packets the demuxer delivers

TimeBases == { 1, 40 }

TimingNal ==
    EncodeTimingNal([ hours |-> 12, minutes |-> 30, seconds |-> 45, ct_type |-> 0,
                      counting_type |-> 4, n_frames |-> 2, time_offset |-> -1,
                      trailing |-> TRUE ])
NoClockNal == << 6, 1, 1, 0, 128 >>     \* picture timing, clock_timestamp_flag 0
UserNal == << 6, 4, 1, 170, 128 >>      \* one message of payload type 4
SliceNal == << 101, 136 >>              \* not an SEI NAL unit

VideoBuffers ==
    { EncodeStartCode(ns, StartCode3) :
        ns \in { << >>, << SliceNal >>, << TimingNal, SliceNal >>,
                 << NoClockNal, SliceNal >>, << UserNal, TimingNal >>,
                 << TimingNal, TimingNal >> } }

DataBuffers ==
    { EncodeValue(AmfScalar(PyStr(OnFI)))
        \o EncodeValue(AmfObject(<< [ key |-> << 115, 100 >>,
                                      value |-> AmfScalar(Float_1_0) ],
                                    [ key |-> << 115, 116 >>,
                                      value |-> AmfScalar(Float_2_0) ] >>)),
      EncodeValue(AmfScalar(PyStr(OnFI))) \o EncodeValue(AmfScalar(Float_1_0)),
      EncodeValue(AmfScalar(PyStr(<< 97 >>))) \o EncodeValue(AmfObject(<< >>)),
      << >> }

VideoPackets ==
    [ stream : { "video" }, dts : { None, Some(0), Some(2) }, pts : { Some(3) },
      time_base : TimeBases, data : VideoBuffers ]

DataPackets ==
    [ stream : { "data" }, dts : { None }, pts : { None, Some(0), Some(3) },
      time_base : { 1 }, data : DataBuffers ]

PipeIdle ==
    /\ analyzer = "none" /\ video_time_base = 0 /\ queue = << >>
    /\ pkt = None /\ emitted = << >> /\ npackets = 0

PipeInit ==
    /\ analyzer \in { "rtmp", "flv", "hls" }
    /\ video_time_base \in TimeBases
    /\ queue = << >>
    /\ pkt = None
    /\ emitted = << >>
    /\ npackets = 0

\* A handler has consumed packet p and put the records rs on the queue.
Handled(p, rs) ==
    /\ npackets < MaxPackets
    /\ pkt' = Some(p)
    /\ emitted' = rs
    /\ queue' = queue \o rs
    /\ npackets' = npackets + 1
    /\ UNCHANGED <<analyzer, video_time_base>>
    /\ UNCHANGED <<scan_vars, sei_vars, amf_vars>>

\* RTMPStreamAnalyzer.analyze_stream (stream_analyzer.py), one packet
RtmpVideoPacket ==
    /\ analyzer = "rtmp"
    /\ \E p \in VideoPackets :
        /\ p.time_base = video_time_base
        /\ Handled(p, AnalyzeVideoPacket(p, "rtmp"))

\* FLVStreamAnalyzer.analyze_stream (stream_analyzer.py), one packet
FlvVideoPacket ==
    /\ analyzer = "flv"
    /\ \E p \in VideoPackets :
        /\ p.time_base = video_time_base
        /\ Handled(p, AnalyzeVideoPacket(p, "flv"))

\* HLSStreamAnalyzer.analyze_segment and the queue.put of analyze_stream
\* (stream_analyzer.py), one packet
HlsVideoPacket ==
    /\ analyzer = "hls"
    /\ \E p \in VideoPackets :
        /\ p.time_base = video_time_base
        /\ Handled(p, AnalyzeVideoPacket(p, "hls"))

\* analyzers/rtmp.py: elif packet.stream == data_stream
RtmpDataPacket ==
    /\ analyzer = "rtmp"
    /\ \E p \in DataPackets :
        Handled(p, RtmpProcessDataPacket(p, video_time_base))

\* analyzers/flv.py: elif packet.stream == data_stream
FlvDataPacket ==
    /\ analyzer = "flv"
    /\ \E p \in DataPackets :
        Handled(p, FlvProcessDataPacket(p, video_time_base))

PipeNext ==
    \/ RtmpVideoPacket \/ FlvVideoPacket \/ HlsVideoPacket
    \/ RtmpDataPacket \/ FlvDataPacket

(***************************************************************************)
(* Claims about the analyzers, under PipeSpec.                             *)
(***************************************************************************)
LastIsVideo == IsSome(pkt) /\ Get(pkt).stream = "video"
LastIsData == IsSome(pkt) /\ Get(pkt).stream = "data"

\* C7: a video packet that has no decode timestamp puts no record on the
\* queue, whatever NAL units and SEI payloads it holds.
C7_NoDtsNoRecord ==
    (LastIsVideo /\ Get(pkt).dts = None) => emitted = << >>

\* C7's case: a packet without dts that holds an SEI NAL unit with a clock
\* timestamp has been consumed, after a packet that did emit.
C7_Witness ==
    /\ LastIsVideo
    /\ Get(pkt).dts = None
    /\ \E k \in 1..Len(ExtractNals(Get(pkt).data, 0)) :
           ExtractNals(Get(pkt).data, 0)[k] = TimingNal
    /\ emitted = << >>
    /\ Len(queue) > 0

RECURSIVE SumSeq(_)
SumSeq(ns) == IF ns = << >> THEN 0 ELSE Head(ns) + SumSeq(Tail(ns))

\* The clock timestamps with hours present in the picture-timing payloads of
\* one NAL unit.
HoursClockCount(n) ==
    LET ps == ParseSei(n) IN
    IF ~IsSome(ps) THEN 0
    ELSE SumSeq([ j \in 1..Len(Get(ps)) |->
                    Cardinality({ c \in 1..Len(Get(ps)[j].clock_timestamps) :
                                    IsSome(Get(ps)[j].clock_timestamps[c].hours) }) ])

PacketHoursClockCount(d) ==
    LET ns == ExtractNals(d, 0) IN
    SumSeq([ k \in 1..Len(ns) |-> HoursClockCount(ns[k]) ])

\* C9: a video packet with a decode timestamp emits as many records as there
\* are clock timestamps with hours present in the picture-timing payloads of
\* its SEI NAL units, each with stream_time = dts x time_base.  (Stated for
\* a decode timestamp other than 0.)
C9_RecordPerClockTimestamp ==
    (LastIsVideo /\ IsSome(Get(pkt).dts) /\ Get(pkt).dts # Some(0)) =>
        /\ Len(emitted) = PacketHoursClockCount(Get(pkt).data)
        /\ \A k \in 1..Len(emitted) :
               emitted[k].stream_time = Get(Get(pkt).dts) * Get(pkt).time_base

\* C10: the record emitted for a data-track packet from which an onFI message
\* is extracted has source AMF_ONFI and stream_time = pts x the video track's
\* time base, in the RTMP and in the FLV analyzer.
C10_DataStreamTime ==
    (LastIsData /\ IsSome(ExtractOnfiData(Get(pkt).data)) /\ IsSome(Get(pkt).pts)) =>
        \A k \in 1..Len(emitted) :
            /\ emitted[k].source = "amf_onfi"
            /\ emitted[k].stream_time = Get(Get(pkt).pts) * video_time_base


\* The SEI NAL units among those scanned from buffer d.
SeiNalCount(d) ==
    LET ns == ExtractNals(d, 0) IN
    Cardinality({ k \in 1..Len(ns) : is_sei(ns[k]) })

\* C23: a video packet whose decode timestamp is 0 is processed like one
\* with any other decode timestamp: each SEI NAL unit in it puts a record
\* on the queue, with stream_time 0.
C23_ZeroDtsProcessed ==
    ( LastIsVideo /\ Get(pkt).dts = Some(0) ) =>
        /\ Len(emitted) = SeiNalCount(Get(pkt).data)
        /\ \A k \in 1..Len(emitted) : emitted[k].stream_time = 0

(***************************************************************************)
(* Specifications, one per component.                                      *)
(***************************************************************************)
\* extract_nals_from_packet is called on a buffer; nothing else runs.
ScanStart == ScanInit /\ SeiIdle /\ AmfIdle /\ PipeIdle

ScanSpec == ScanStart /\ [][ScanNext]_vars

\* parse_sei is called on a NAL unit; nothing else runs.
SeiStart == SeiInit /\ ScanIdle /\ AmfIdle /\ PipeIdle

SeiSpec == SeiStart /\ [][SeiNext]_vars

\* extract_onfi_data is called on a buffer; nothing else runs.
AmfStart == AmfInit /\ ScanIdle /\ SeiIdle /\ PipeIdle

AmfSpec == AmfStart /\ [][AmfNext]_vars

\* An analyzer has opened its stream and demuxes packets.
PipeStart == PipeInit /\ ScanIdle /\ SeiIdle /\ AmfIdle

PipeSpec == PipeStart /\ [][PipeNext]_vars

\* _parse_clock_timestamp is called at a bit position; nothing else runs.
ClockStart == ClkInit /\ ScanIdle /\ AmfIdle /\ PipeIdle

ClockSpec == ClockStart /\ [][ClkNext]_vars

\* parse_amf0_value is called at an offset of a buffer; nothing else runs.
ValStart == ValInit /\ ScanIdle /\ SeiIdle /\ PipeIdle

ValueSpec == ValStart /\ [][ValNext]_vars

\* parse_sei or extract_onfi_data is called on a buffer.
CoreStart == SeiStart \/ AmfStart

CoreNext == SeiNext \/ AmfNext

CoreSpec == CoreStart /\ [][CoreNext]_vars

\* The chunks of AmfChunks that begin or cut short a value, and the markers
\* the decoder has no case for.
LiveAmfChunks ==
    { << AMF0_STRING, 0, 4 >> \o OnFI, << AMF0_STRING, 0, 5 >>,
      << 0, 1, 97 >>, << 0, 0, AMF0_OBJECT_END >>, << AMF0_OBJECT >>,
      << AMF0_NULL >>, << AMF0_STRICT_ARRAY >>, << 255 >> }

\* parse_sei or extract_onfi_data is called on a buffer put together from
\* chunks, and the call runs on: a step that can be taken is taken.
CoreLiveStart ==
    \/ /\ \E h \in NalHeaders, cs \in SeqsUpTo(SeiChunks, 0, MaxLiveChunks) :
            /\ sei_in = None
            /\ sei_data = << h >> \o Concat(cs)
       /\ pos = 1 /\ payloads = << >> /\ env = << >> /\ sei_pc = "start"
       /\ ClkIdle /\ ScanIdle /\ AmfIdle /\ PipeIdle
    \/ /\ \E cs \in SeqsUpTo(LiveAmfChunks, 0, MaxLiveChunks) :
            /\ amf_in = None
            /\ amf_data = Concat(cs)
       /\ offset = 0 /\ onfi = None /\ amf_pc = "loop" /\ visited = << >>
       /\ ValIdle /\ ScanIdle /\ SeiIdle /\ PipeIdle

CoreLiveSpec == CoreLiveStart /\ [][CoreNext]_vars /\ WF_vars(CoreNext)

=============================================================================
